---- MODULE Spec2Model ----
(***************************************************************************)
(* Model of the /auth decision path of the dstack service mesh             *)
(* (service-mesh/src/server.rs): the AuthHeaders request guard, the        *)
(* auth_handler stages, the parse_and_verify_cert pipeline and the two     *)
(* responders.  Several requests are in flight at once (Rocket runs the    *)
(* handlers as tasks of a multi-threaded runtime), each advancing one      *)
(* source statement at a time.                                             *)
(*                                                                         *)
(* The libraries the pipeline calls (urlencoding, x509_parser, ra_tls)     *)
(* are outside the repository.  An x-client-cert value is therefore        *)
(* modelled by its layers: for each library call, whether the call         *)
(* returns Ok, and what it hands to the next call.  "pct", "pem", "der"    *)
(* name the outcome of urlencoding::decode, parse_x509_pem and parse_x509  *)
(* on the value; "ext" and "bytes" the outcome of CertExt::get_app_id.     *)
(* hex::encode is modelled digit by digit.                                 *)
(***************************************************************************)
EXTENDS Integers, Sequences, FiniteSets, TLC

\* Number of /auth requests in flight.
NumRequests == 2

Requests == 1..NumRequests

\* Option<T>: None is the empty sequence, Some(v) a one-element sequence.
None == <<>>
Some(v) == <<v>>
IsSome(o) == Len(o) = 1
Unwrap(o) == o[1]

(***************************************************************************)
(* Inputs                                                                  *)
(***************************************************************************)

\* Values of the x-client-verify header as nginx may forward them.
VerifyValues == {"SUCCESS", "FAILED", "success"}

\* Identity bytes the issuing CA may have put in the app_id extension.
AppIdBytes == {<<0, 171>>, <<255, 16, 9>>}

\* The app_id extension of a parsed certificate, as CertExt::get_app_id sees
\* it: absent (Ok(None)), present but not decodable (Err), or present with
\* its octets (Ok(Some(bytes))).
ExtAbsent == [ext |-> "absent", bytes |-> <<>>]
ExtMalformed == [ext |-> "malformed", bytes |-> <<>>]
ExtOctets(b) == [ext |-> "octets", bytes |-> b]
Extensions == {ExtAbsent, ExtMalformed} \cup {ExtOctets(b) : b \in AppIdBytes}

\* An x-client-cert header value, by the layer at which it stops being valid.
CertValue(pct, pem, der, e) == [pct |-> pct, pem |-> pem, der |-> der, app_id |-> e]
BadPercentValue == CertValue(FALSE, FALSE, FALSE, ExtAbsent)
NotPemValue == CertValue(TRUE, FALSE, FALSE, ExtAbsent)
BadDerValue == CertValue(TRUE, TRUE, FALSE, ExtAbsent)
ValidCertValue(e) == CertValue(TRUE, TRUE, TRUE, e)
CertValues == {BadPercentValue, NotPemValue, BadDerValue} \cup {ValidCertValue(e) : e \in Extensions}

OptVerify == {None} \cup {Some(v) : v \in VerifyValues}
OptCert == {None} \cup {Some(c) : c \in CertValues}

(***************************************************************************)
(* Results and errors                                                      *)
(***************************************************************************)

\* Result<T, E>
Ok(v) == [ok |-> TRUE, val |-> Some(v), err |-> None]
Err(e) == [ok |-> FALSE, val |-> None, err |-> Some(e)]

\* anyhow::Error: the outermost context message and the error it wraps.
AnyhowError(context, source) == [context |-> context, source |-> source]

\* Display of an anyhow::Error ("{e}"): the outermost context only.
Display(e) == e.context

\* tracing events: the format string, and the values of {e} and {app_id}.
Warn(msg, e) == [level |-> "WARN", msg |-> msg, error |-> e, app_id |-> <<>>]
Info(msg, id) == [level |-> "INFO", msg |-> msg, error |-> "", app_id |-> id]

\* The format strings of the handler's events.
MissingVerifyMsg == "Missing verify header"
VerifyNotSuccessMsg == "Verify header is not SUCCESS"
MissingCertMsgCopied == "Missing verify header"
MissingCertMsg == "Missing cert header"
AuthFailedMsg == "Auth failed: {e}"
AuthSuccessfulMsg == "Auth successful for app_id: {app_id}"

\* The context messages of parse_and_verify_cert.
DecodeContext == "Failed to decode certificate"
PemContext == "Failed to parse ca cert"
X509Context == "Failed to parse ca cert"
GetAppIdContext == "Failed to get app_id from client cert"
NoAppIdMessage == "No app_id found in client cert"

\* Result::context: wraps the error of a failed result, leaves Ok alone.
Context(res, msg) == IF res.ok THEN res ELSE Err(AnyhowError(msg, Unwrap(res.err)))

(***************************************************************************)
(* Library calls of the pipeline, by their results                         *)
(***************************************************************************)

\* urlencoding::decode: the decoded text, or a FromUtf8Error.
UrlDecode(s) ==
  IF s.pct THEN Ok([pem |-> s.pem, der |-> s.der, app_id |-> s.app_id])
  ELSE Err("FromUtf8Error")

\* x509_parser::pem::parse_x509_pem: the PEM block, or a PEMError.
ParseX509Pem(text) ==
  IF text.pem THEN Ok([der |-> text.der, app_id |-> text.app_id])
  ELSE Err("PEMError")

\* Pem::parse_x509: the parsed certificate, or an X509Error.
ParseX509(pem) ==
  IF pem.der THEN Ok([app_id |-> pem.app_id])
  ELSE Err("X509Error")

\* CertExt::get_app_id: Result<Option<Vec<u8>>>.
GetAppId(cert) ==
  CASE cert.app_id.ext = "octets" -> Ok(Some(cert.app_id.bytes))
    [] cert.app_id.ext = "absent" -> Ok(None)
    [] OTHER -> Err("ExtensionDecodeError")

\* hex::encode: two lowercase digits per byte, high nibble first.
HexChars == <<"0", "1", "2", "3", "4", "5", "6", "7", "8", "9", "a", "b", "c", "d", "e", "f">>
HexCharsUpper == <<"0", "1", "2", "3", "4", "5", "6", "7", "8", "9", "A", "B", "C", "D", "E", "F">>

RECURSIVE HexEncodeUpper(_)
HexEncodeUpper(bytes) ==
  IF bytes = <<>> THEN <<>>
  ELSE <<HexCharsUpper[(Head(bytes) \div 16) + 1], HexCharsUpper[(Head(bytes) % 16) + 1]>>
         \o HexEncodeUpper(Tail(bytes))

RECURSIVE HexEncodeRec(_)
HexEncodeRec(bytes) ==
  IF bytes = <<>> THEN <<>>
  ELSE <<HexChars[(Head(bytes) \div 16) + 1], HexChars[(Head(bytes) % 16) + 1]>>
         \o HexEncodeRec(Tail(bytes))

HexEncode(bytes) == HexEncodeRec(bytes)

(***************************************************************************)
(* Responders                                                              *)
(***************************************************************************)

\* Status::Unauthorized
Unauthorized == 401

\* Status::Ok
StatusOk == 200

\* No response written yet.
NoResponse == [status |-> 0, headers |-> {}, body |-> ""]

\* AuthSuccessResponse::respond_to: the status and one header, no body.
RespondTo(app_id) ==
  [status |-> StatusOk,
   headers |-> {[name |-> "x-dstack-app-id", value |-> app_id]},
   body |-> ""]

\* Err(status) of a Result<_, Status>: Rocket hands an error status to the
\* catcher of that status.  The service mounts its routes and registers no
\* catcher, so Rocket's built-in catcher answers with its error page for the
\* status, which names the status and nothing else of the request.  (The
\* page is HTML unless the request's Accept header prefers JSON; the requests
\* modelled state no such preference.)
DefaultCatcherPage == "default error page"
ErrStatus(status) ==
  [status |-> status,
   headers |-> {[name |-> "content-type", value |-> <<"text/html">>]},
   body |-> DefaultCatcherPage]

\* The response of a `warn!(reason); return Err(Status::Unauthorized)` exit.
DenyResponseEchoReason(reason) == [ErrStatus(Unauthorized) EXCEPT !.body = reason]
DenyResponse(reason) == ErrStatus(Unauthorized)

\* The Err arm of the handler's match when the error is passed on instead of
\* being turned into a denial.
ErrArmPropagate(e) == ErrStatus(500)
\* The Err arm of the handler's match on parse_and_verify_cert's result.
ErrArm(e) == ErrStatus(Unauthorized)

(***************************************************************************)
(* State                                                                   *)
(***************************************************************************)

VARIABLES
  pc,        \* pc[r]: the statement request r executes next
  headers,   \* headers[r]: the AuthHeaders value the guard built for r
  locals,    \* locals[r]: the live local variables of r's handler call
  log,       \* log[r]: the tracing events r's handler emitted, in order
  response,  \* response[r]: the response written for r
  stages     \* stages[r]: the statements r's handler has executed, in order

vars == <<pc, headers, locals, log, response, stages>>

NoHeaders == [client_cert |-> None, client_verify |-> None]

NoLocals ==
  [verify |-> None, cert_pem |-> None, decoded |-> None, ca_pem |-> None,
   cert |-> None, app_id_bytes |-> None, result |-> None]

\* The statements of parse_and_verify_cert.
ExtractionSteps == {"url_decode", "parse_pem", "parse_x509", "get_app_id", "hex_encode"}

Init ==
  /\ pc = [r \in Requests |-> "new"]
  /\ headers = [r \in Requests |-> NoHeaders]
  /\ locals = [r \in Requests |-> NoLocals]
  /\ log = [r \in Requests |-> <<>>]
  /\ response = [r \in Requests |-> NoResponse]
  /\ stages = [r \in Requests |-> <<>>]

(***************************************************************************)
(* AuthHeaders::from_request                                               *)
(***************************************************************************)

\* A request arrives; the guard copies the two headers, present or not.
FromRequest(r) ==
  /\ pc[r] = "new"
  /\ \E cert \in OptCert, verify \in OptVerify :
       headers' = [headers EXCEPT ![r] = [client_cert |-> cert, client_verify |-> verify]]
  /\ pc' = [pc EXCEPT ![r] = "verify"]
  /\ UNCHANGED <<locals, log, response, stages>>

(***************************************************************************)
(* auth_handler                                                            *)
(***************************************************************************)

\* warn!(reason); return Err(Status::Unauthorized): the call ends and its
\* locals are dropped.
Deny(r, stage, reason) ==
  /\ log' = [log EXCEPT ![r] = Append(@, Warn(reason, ""))]
  /\ response' = [response EXCEPT ![r] = DenyResponse(reason)]
  /\ locals' = [locals EXCEPT ![r] = NoLocals]
  /\ pc' = [pc EXCEPT ![r] = "done"]
  /\ stages' = [stages EXCEPT ![r] = Append(@, stage)]
  /\ UNCHANGED headers

\* One statement that neither logs nor responds: the locals it binds and the
\* statement that follows.
Advance(r, stage, newLocals, next) ==
  /\ locals' = [locals EXCEPT ![r] = newLocals]
  /\ pc' = [pc EXCEPT ![r] = next]
  /\ stages' = [stages EXCEPT ![r] = Append(@, stage)]
  /\ UNCHANGED <<headers, log, response>>

\* verify != "SUCCESS", negated.
VerifyIsSuccessIgnoreCase(verify) == verify \in {"SUCCESS", "success"}
VerifyIsSuccess(verify) == verify = "SUCCESS"

\* The verify stage with the check applied only to a header that is present.
VerifyStageOnlyIfPresent(r) ==
  /\ pc[r] = "verify"
  /\ LET verify_header == headers[r].client_verify IN
       IF IsSome(verify_header) /\ ~VerifyIsSuccess(Unwrap(verify_header))
         THEN Deny(r, "verify", VerifyNotSuccessMsg)
       ELSE Advance(r, "verify", [locals[r] EXCEPT !.verify = verify_header], "cert_presence")

\* The verify stage: the header must be present and equal to "SUCCESS".
VerifyStage(r) ==
  /\ pc[r] = "verify"
  /\ LET verify_header == headers[r].client_verify IN
       IF ~IsSome(verify_header)
         THEN Deny(r, "verify", MissingVerifyMsg)
       ELSE IF ~VerifyIsSuccess(Unwrap(verify_header))
         THEN Deny(r, "verify", VerifyNotSuccessMsg)
       ELSE Advance(r, "verify", [locals[r] EXCEPT !.verify = verify_header], "cert_presence")

\* The certificate-presence stage.
CertPresenceStage(r) ==
  /\ pc[r] = "cert_presence"
  /\ LET cert_header == headers[r].client_cert IN
       IF ~IsSome(cert_header)
         THEN Deny(r, "cert_presence", MissingCertMsg)
       ELSE Advance(r, "cert_presence", [locals[r] EXCEPT !.cert_pem = cert_header], "url_decode")

(***************************************************************************)
(* parse_and_verify_cert                                                   *)
(***************************************************************************)

\* The locals of the handler that outlive a return of parse_and_verify_cert,
\* with the returned result bound.
Returned(r, res) ==
  [NoLocals EXCEPT !.verify = locals[r].verify,
                   !.cert_pem = locals[r].cert_pem,
                   !.result = Some(res)]

\* The `?` operator: an Err returns from the function at once, an Ok binds
\* the value and goes on to the next statement.
Try(r, stage, res, bound, next) ==
  IF res.ok THEN Advance(r, stage, bound, next)
  ELSE Advance(r, stage, Returned(r, res), "match_result")

UrlDecodeStep(r) ==
  /\ pc[r] = "url_decode"
  /\ LET res == Context(UrlDecode(Unwrap(locals[r].cert_pem)), DecodeContext) IN
       Try(r, "url_decode", res, [locals[r] EXCEPT !.decoded = res.val], "parse_pem")

ParsePemStep(r) ==
  /\ pc[r] = "parse_pem"
  /\ LET res == Context(ParseX509Pem(Unwrap(locals[r].decoded)), PemContext) IN
       Try(r, "parse_pem", res, [locals[r] EXCEPT !.ca_pem = res.val], "parse_x509")

ParseX509Step(r) ==
  /\ pc[r] = "parse_x509"
  /\ LET res == Context(ParseX509(Unwrap(locals[r].ca_pem)), X509Context) IN
       Try(r, "parse_x509", res, [locals[r] EXCEPT !.cert = res.val], "get_app_id")

\* let Some(app_id_bytes) = ... else { bail!(...) } with the absent case
\* replaced by a default value.
AppIdOrDefault(opt) == IF IsSome(opt) THEN Ok(Unwrap(opt)) ELSE Ok(<<>>)
\* let Some(app_id_bytes) = ... else { bail!(...) }
AppIdOrBail(opt) ==
  IF IsSome(opt) THEN Ok(Unwrap(opt)) ELSE Err(AnyhowError(NoAppIdMessage, ""))

GetAppIdStep(r) ==
  /\ pc[r] = "get_app_id"
  /\ LET got == Context(GetAppId(Unwrap(locals[r].cert)), GetAppIdContext)
         res == IF got.ok THEN AppIdOrBail(Unwrap(got.val)) ELSE got
     IN  Try(r, "get_app_id", res, [locals[r] EXCEPT !.app_id_bytes = res.val], "hex_encode")

\* Ok(hex::encode(app_id_bytes)): the function returns.
HexEncodeStep(r) ==
  /\ pc[r] = "hex_encode"
  /\ Advance(r, "hex_encode",
             Returned(r, Ok(HexEncode(Unwrap(locals[r].app_id_bytes)))),
             "match_result")

(***************************************************************************)
(* auth_handler: the match on the result                                   *)
(***************************************************************************)

\* A result kept in a place all handler calls share: the first Ok result any
\* call holds is taken before the call's own.
ResultShared(r) ==
  LET holders == {q \in Requests : IsSome(locals[q].result) /\ Unwrap(locals[q].result).ok}
  IN  IF holders # {}
        THEN Unwrap(locals[CHOOSE q \in holders : \A p \in holders : q <= p].result)
      ELSE Unwrap(locals[r].result)
\* The result parse_and_verify_cert returned to this call.
ResultOf(r) == Unwrap(locals[r].result)

\* The end of a handler call: the response is written, the locals dropped.
Finish(r, event, resp) ==
  /\ log' = [log EXCEPT ![r] = Append(@, event)]
  /\ response' = [response EXCEPT ![r] = resp]
  /\ locals' = [locals EXCEPT ![r] = NoLocals]
  /\ pc' = [pc EXCEPT ![r] = "done"]
  /\ stages' = [stages EXCEPT ![r] = Append(@, "match_result")]
  /\ UNCHANGED headers

\* The match with an Err arm that runs the extraction again.
MatchResultRetry(r) ==
  /\ pc[r] = "match_result"
  /\ LET res == ResultOf(r) IN
       IF res.ok
         THEN Finish(r, Info(AuthSuccessfulMsg, Unwrap(res.val)), RespondTo(Unwrap(res.val)))
       ELSE Advance(r, "match_result", [locals[r] EXCEPT !.result = None], "url_decode")

MatchResult(r) ==
  /\ pc[r] = "match_result"
  /\ LET res == ResultOf(r) IN
       IF res.ok
         THEN Finish(r, Info(AuthSuccessfulMsg, Unwrap(res.val)), RespondTo(Unwrap(res.val)))
       ELSE Finish(r, Warn(AuthFailedMsg, Display(Unwrap(res.err))), ErrArm(Unwrap(res.err)))

(***************************************************************************)
(* Specification                                                           *)
(***************************************************************************)

\* The steps of a handler call, once the request has arrived.
Handle(r) ==
  \/ VerifyStage(r)
  \/ CertPresenceStage(r)
  \/ UrlDecodeStep(r)
  \/ ParsePemStep(r)
  \/ ParseX509Step(r)
  \/ GetAppIdStep(r)
  \/ HexEncodeStep(r)
  \/ MatchResult(r)

Next == \E r \in Requests : FromRequest(r) \/ Handle(r)

Spec == Init /\ [][Next]_vars

\* The runtime does not idle while a handler call it has started can take a
\* step.
FairSpec == Spec /\ WF_vars(\E r \in Requests : Handle(r))

(***************************************************************************)
(* Vocabulary of the properties                                            *)
(***************************************************************************)

Done(r) == pc[r] = "done"
Denied(r) == Done(r) /\ response[r].status # 200
VerifiedOk(r) == headers[r].client_verify = <<"SUCCESS">>
HasCert(r) == Len(headers[r].client_cert) = 1
CertOf(r) == headers[r].client_cert[1]
HasAppIdHeader(resp) == \E h \in resp.headers : h.name = "x-dstack-app-id"
Ran(r, stage) == \E i \in 1..Len(stages[r]) : stages[r][i] = stage
StartedParsing(r) == pc[r] \in ExtractionSteps \/ \E st \in ExtractionSteps : Ran(r, st)
ReqState(r) == <<pc[r], headers[r], locals[r], log[r], response[r], stages[r]>>

\* A certificate value that passes every parsing step and carries identity bytes.
CarriesIdentity(c) == c.pct /\ c.pem /\ c.der /\ c.app_id.ext = "octets"

\* v is the lowercase hexadecimal writing of the bytes b.
LowerHexAlphabet == <<"0", "1", "2", "3", "4", "5", "6", "7", "8", "9", "a", "b", "c", "d", "e", "f">>
IsLowerHexOf(v, b) ==
  /\ Len(v) = 2 * Len(b)
  /\ \A i \in 1..Len(b) :
       \E hi \in 0..15, lo \in 0..15 :
         /\ v[2 * i - 1] = LowerHexAlphabet[hi + 1]
         /\ v[2 * i] = LowerHexAlphabet[lo + 1]
         /\ 16 * hi + lo = b[i]

(***************************************************************************)
(* C1                                                                      *)
(***************************************************************************)

\* C1: a finished request whose x-client-verify header is absent or is not
\* exactly "SUCCESS" was answered 401 without an identity header, whatever
\* its x-client-cert header holds.
C1_VerifyPrecedence ==
  \A r \in Requests :
    (Done(r) /\ ~VerifiedOk(r)) =>
      /\ response[r].status = 401
      /\ ~HasAppIdHeader(response[r])

\* A request with a certificate that carries an identity, and a verify header
\* that differs from "SUCCESS" only in case, has been denied.
C1_Witness ==
  \E r \in Requests :
    /\ Done(r)
    /\ headers[r].client_verify = <<"success">>
    /\ HasCert(r) /\ CarriesIdentity(CertOf(r))
    /\ response[r].status = 401

(***************************************************************************)
(* C2                                                                      *)
(***************************************************************************)

\* C2: a request is at, or has executed, a parsing statement only if its
\* verify header is "SUCCESS", its certificate header is present, and the
\* verify stage and the presence stage ran first, in this order; a request
\* whose verify header is not "SUCCESS" executes the verify stage and
\* nothing else.
C2_StageOrdering ==
  \A r \in Requests :
    /\ StartedParsing(r) =>
         /\ VerifiedOk(r) /\ HasCert(r)
         /\ Len(stages[r]) >= 2
         /\ stages[r][1] = "verify"
         /\ stages[r][2] = "cert_presence"
    /\ (pc[r] # "new" /\ ~VerifiedOk(r)) =>
         /\ ~StartedParsing(r)
         /\ stages[r] \in {<<>>, <<"verify">>}

\* One request is in the middle of parsing while another, holding a
\* certificate with an identity, was denied at the verify stage.
C2_Witness ==
  \E r1, r2 \in Requests :
    /\ pc[r1] = "parse_x509"
    /\ Done(r2) /\ headers[r2].client_verify = <<"FAILED">>
    /\ HasCert(r2) /\ CarriesIdentity(CertOf(r2))
    /\ stages[r2] = <<"verify">>

(***************************************************************************)
(* C3                                                                      *)
(***************************************************************************)

\* C3: a finished request with verify "SUCCESS" and no certificate header
\* was answered 401 and logged exactly the missing-certificate warning; that
\* warning is logged by no other kind of request (so it differs from the
\* reasons of the verify stage and of the extraction); with both headers
\* absent the only event logged is the missing-verify warning.
C3_MissingCert ==
  \A r \in Requests :
    Done(r) =>
      /\ (VerifiedOk(r) /\ ~HasCert(r)) =>
           /\ response[r].status = 401
           /\ Len(log[r]) = 1
           /\ log[r][1].level = "WARN"
           /\ log[r][1].msg = "Missing cert header"
           /\ stages[r] = <<"verify", "cert_presence">>
      /\ (\E i \in 1..Len(log[r]) : log[r][i].msg = "Missing cert header") =>
           (VerifiedOk(r) /\ ~HasCert(r))
      /\ (headers[r].client_verify = <<>> /\ ~HasCert(r)) =>
           /\ Len(log[r]) = 1
           /\ log[r][1].msg = "Missing verify header"
           /\ stages[r] = <<"verify">>

\* A request with verify "SUCCESS" and no certificate has finished, next to
\* a finished request with neither header.
C3_Witness ==
  \E r1, r2 \in Requests :
    /\ Done(r1) /\ VerifiedOk(r1) /\ ~HasCert(r1)
    /\ Done(r2) /\ headers[r2].client_verify = <<>> /\ ~HasCert(r2)

(***************************************************************************)
(* C4                                                                      *)
(***************************************************************************)

\* C4: a finished request with verify "SUCCESS" and a certificate that
\* decodes and parses and whose identity extension holds bytes B was
\* answered 200 with the single header x-dstack-app-id, whose value is the
\* lowercase hexadecimal writing of B, and an empty body; and any two
\* finished requests with equal header values have equal responses.
C4_HappyPathDeterminism ==
  /\ \A r \in Requests :
       (Done(r) /\ VerifiedOk(r) /\ HasCert(r) /\ CarriesIdentity(CertOf(r))) =>
         /\ response[r].status = 200
         /\ response[r].body = ""
         /\ Cardinality(response[r].headers) = 1
         /\ \A h \in response[r].headers :
              /\ h.name = "x-dstack-app-id"
              /\ IsLowerHexOf(h.value, CertOf(r).app_id.bytes)
  /\ \A r1, r2 \in Requests :
       (Done(r1) /\ Done(r2) /\ headers[r1] = headers[r2]) => response[r1] = response[r2]

\* Two requests carrying the same certificate with identity bytes 00 ab were
\* both answered with the header value "00ab".
C4_Witness ==
  \E r1, r2 \in Requests :
    /\ r1 # r2
    /\ Done(r1) /\ Done(r2)
    /\ headers[r1] = headers[r2]
    /\ VerifiedOk(r1) /\ HasCert(r1)
    /\ CarriesIdentity(CertOf(r1)) /\ CertOf(r1).app_id.bytes = <<0, 171>>
    /\ response[r1].headers = {[name |-> "x-dstack-app-id", value |-> <<"0", "0", "a", "b">>]}

(***************************************************************************)
(* C5                                                                      *)
(***************************************************************************)

\* C5: a request with verify "SUCCESS" and a certificate that decodes and
\* parses but has no identity extension never holds an Ok result and never
\* gets a 200; once finished it was answered 401 without an identity header.
\* And every 200 went to a request whose certificate carries identity bytes.
C5_MandatoryIdentity ==
  \A r \in Requests :
    /\ (VerifiedOk(r) /\ HasCert(r) /\ CertOf(r).pct /\ CertOf(r).pem /\ CertOf(r).der
          /\ CertOf(r).app_id.ext = "absent") =>
         /\ response[r].status # 200
         /\ ~HasAppIdHeader(response[r])
         /\ (Len(locals[r].result) = 1 => ~locals[r].result[1].ok)
         /\ Done(r) => response[r].status = 401
    /\ response[r].status = 200 => (HasCert(r) /\ CarriesIdentity(CertOf(r)))

\* A request with a parsable certificate without the extension has run the
\* extension lookup and was denied.
C5_Witness ==
  \E r \in Requests :
    /\ Done(r) /\ VerifiedOk(r) /\ HasCert(r)
    /\ CertOf(r).der /\ CertOf(r).app_id.ext = "absent"
    /\ Ran(r, "get_app_id")
    /\ response[r].status = 401

(***************************************************************************)
(* C6                                                                      *)
(***************************************************************************)

\* The statements a request executes when its certificate value fails at the
\* given extraction step.
StagesUpTo(step) ==
  CASE step = "url_decode" -> <<"verify", "cert_presence", "url_decode">>
    [] step = "parse_pem" -> <<"verify", "cert_presence", "url_decode", "parse_pem">>
    [] step = "parse_x509" ->
         <<"verify", "cert_presence", "url_decode", "parse_pem", "parse_x509">>

\* The extraction step at which a certificate value fails ("none" if it
\* passes percent-decoding, PEM parsing and X.509 parsing).
FailingStep(c) ==
  IF ~c.pct THEN "url_decode"
  ELSE IF ~c.pem THEN "parse_pem"
  ELSE IF ~c.der THEN "parse_x509"
  ELSE "none"

\* C6: for a request with verify "SUCCESS" whose certificate value fails
\* percent-decoding, PEM parsing or X.509 parsing: the statements executed
\* are those up to the failing step and then the handler's match, no later
\* step runs; while the match is pending the handler holds an Err result;
\* and the finished request was answered 401.
C6_MalformedInput ==
  \A r \in Requests :
    (VerifiedOk(r) /\ HasCert(r) /\ FailingStep(CertOf(r)) # "none") =>
      LET path == StagesUpTo(FailingStep(CertOf(r))) IN
        /\ pc[r] = "match_result" =>
             /\ stages[r] = path
             /\ Len(locals[r].result) = 1
             /\ ~locals[r].result[1].ok
        /\ Done(r) =>
             /\ stages[r] = Append(path, "match_result")
             /\ response[r].status = 401
        /\ Len(stages[r]) <= Len(path) + 1
        /\ response[r].status \in {0, 401}

\* A request whose certificate is a PEM block with an invalid DER payload has
\* been denied after the X.509 parsing step.
C6_Witness ==
  \E r \in Requests :
    /\ Done(r) /\ VerifiedOk(r) /\ HasCert(r)
    /\ FailingStep(CertOf(r)) = "parse_x509"
    /\ Ran(r, "parse_x509")
    /\ response[r].status = 401

(***************************************************************************)
(* C7                                                                      *)
(***************************************************************************)

\* C7 as stated: every finished request that was not answered 200 got status
\* 401, an empty body and no x-dstack-app-id header; and the identity header
\* is on 200 responses only.
C7_DenialEmptyBody ==
  \A r \in Requests :
    /\ Denied(r) =>
         /\ response[r].status = 401
         /\ response[r].body = ""
         /\ ~HasAppIdHeader(response[r])
    /\ HasAppIdHeader(response[r]) => response[r].status = 200

\* C7 amended: every finished request that was not answered 200 got status
\* 401, no x-dstack-app-id header and, as body, the framework's error page
\* for 401 (not an empty body), which is the same for every reason; the
\* reason is in the request's log only; two denied requests have equal
\* responses whatever their reasons; and the identity header is on 200
\* responses only.
C7_DenialUniform ==
  /\ \A r \in Requests :
       /\ Denied(r) =>
            /\ response[r].status = 401
            /\ response[r].body = "default error page"
            /\ ~HasAppIdHeader(response[r])
            /\ Len(log[r]) = 1 /\ log[r][1].level = "WARN"
       /\ HasAppIdHeader(response[r]) => response[r].status = 200
  /\ \A r1, r2 \in Requests :
       (Denied(r1) /\ Denied(r2)) => response[r1] = response[r2]

\* Two requests were denied for different logged reasons.
C7_Witness ==
  \E r1, r2 \in Requests :
    /\ Denied(r1) /\ Denied(r2)
    /\ log[r1][1].msg = "Verify header is not SUCCESS"
    /\ log[r2][1].msg = "Auth failed: {e}"
    /\ log[r2][1].error = "No app_id found in client cert"

(***************************************************************************)
(* C8                                                                      *)
(***************************************************************************)

\* The status and identity header a request's own two header values call for.
OwnOutcomeIs(r, resp) ==
  IF VerifiedOk(r) /\ HasCert(r) /\ CarriesIdentity(CertOf(r))
    THEN /\ resp.status = 200
         /\ \E h \in resp.headers : h.name = "x-dstack-app-id"
         /\ \A h \in resp.headers :
              h.name = "x-dstack-app-id" => IsLowerHexOf(h.value, CertOf(r).app_id.bytes)
  ELSE /\ resp.status = 401
       /\ ~HasAppIdHeader(resp)

\* C8: in every step, under any interleaving of the requests' statements, at
\* most one request's state changes (no request writes what another reads);
\* a request that finishes in the step gets the status and identity header
\* that its own x-client-verify and x-client-cert values call for, whatever
\* the other requests hold, and keeps no local state; and a finished
\* request's response stays as it is.
C8_Stateless ==
  [][\A r \in Requests :
       /\ (ReqState(r)' # ReqState(r)) =>
            \A q \in Requests \ {r} : ReqState(q)' = ReqState(q)
       /\ (pc'[r] = "done") =>
            /\ OwnOutcomeIs(r, response'[r])
            /\ headers'[r] = headers[r]
            /\ locals'[r] = NoLocals
       /\ Done(r) => response'[r] = response[r]
    ]_vars

\* A request was answered 200 with its own identity while another request,
\* whose certificate carries a different identity, holds its Ok result and
\* has not answered yet.
C8_Witness ==
  \E r1, r2 \in Requests :
    /\ Done(r1) /\ response[r1].status = 200
    /\ pc[r2] = "match_result"
    /\ Len(locals[r2].result) = 1 /\ locals[r2].result[1].ok
    /\ CertOf(r1).app_id.bytes # CertOf(r2).app_id.bytes

(***************************************************************************)
(* C9                                                                      *)
(***************************************************************************)

\* A finished request whose denial came from the extraction pipeline.
ExtractionDenied(r) == Denied(r) /\ Ran(r, "url_decode")

\* The extraction step such a request failed at: the last one it executed.
FailedAt(r) == stages[r][Len(stages[r]) - 1]

\* The reason such a request reported: the text logged for {e}.
ReportedReason(r) == log[r][Len(log[r])].error

\* C9 as stated: the reason reported for an extraction failure identifies
\* the step that failed: two requests whose extraction failed at different
\* steps report different reasons.
C9_DistinctFailureKinds ==
  \A r1, r2 \in Requests :
    (ExtractionDenied(r1) /\ ExtractionDenied(r2) /\ FailedAt(r1) # FailedAt(r2)) =>
      ReportedReason(r1) # ReportedReason(r2)

(***************************************************************************)
(* C10                                                                     *)
(***************************************************************************)

\* The position of a statement in the handler.
Rank(stage) ==
  CASE stage = "verify" -> 1
    [] stage = "cert_presence" -> 2
    [] stage = "url_decode" -> 3
    [] stage = "parse_pem" -> 4
    [] stage = "parse_x509" -> 5
    [] stage = "get_app_id" -> 6
    [] stage = "hex_encode" -> 7
    [] stage = "match_result" -> 8

\* No statement was executed twice, and none after a later one.
InOrderOnce(seq) ==
  \A i, j \in 1..Len(seq) : i < j => Rank(seq[i]) < Rank(seq[j])

\* C10: every request that has arrived eventually finishes (from some point
\* on every request is either not yet received or finished); a finished
\* request has exactly one outcome, 200 or 401; no statement of a request is
\* executed more than once; and once a request has finished, nothing of it
\* changes any more.
C10_TerminalOutcome ==
  /\ <>[](\A r \in Requests : pc[r] \in {"new", "done"})
  /\ [](\A r \in Requests :
          /\ InOrderOnce(stages[r])
          /\ Done(r) <=> response[r].status \in {200, 401}
          /\ ~Done(r) => response[r].status = 0)
  /\ [][\A r \in Requests : Done(r) => ReqState(r)' = ReqState(r)]_vars

\* A request denied by the extraction and a request authorized have both
\* finished.
C10_Witness ==
  \E r1, r2 \in Requests :
    /\ Done(r1) /\ response[r1].status = 401 /\ Ran(r1, "parse_pem")
    /\ Done(r2) /\ response[r2].status = 200

====
